---- MODULE Spec2Model ----
(***************************************************************************)
(* MovieAtlas: the session state of the Streamlit front end (main.py,      *)
(* utils.py) and the API client (api_utils.py) as a state machine.         *)
(*                                                                         *)
(* A script run of main() is one step (MainDetail, MainSurprise or         *)
(* MainGrid, by the branch it takes).  A widget callback runs before the   *)
(* script run it causes, so every click is a callback step that leaves     *)
(* pc = "dirty", followed by a script run.                                 *)
(*                                                                         *)
(*   Spec           the session driven through the controls on the screen  *)
(*   SpecCallbacks  the callbacks alone, from any session state            *)
(*                                                                         *)
(* st.cache_data is not modelled: every call of the API client reaches     *)
(* the remote API, whose outcome is chosen anew.                           *)
(*                                                                         *)
(* Representation of Python values:                                        *)
(*   None / absent key   <<>>            a value v        <<v>>            *)
(*   dict                function over its keys                            *)
(*   f"{y}-01-01"        <<y, 1, 1>>     str(n)           <<"str", n>>     *)
(*   float rating x      the integer 10 * x                                *)
(*   ",".join(set)       the set         "|".join(list)   the list         *)
(***************************************************************************)
EXTENDS Integers, Sequences, FiniteSets, TLC

VARIABLES
    page,                   \* st.session_state['page']
    selected_movie_id,      \* st.session_state['selected_movie_id']
    actor_id_result,        \* st.session_state['actor_id_result']
    director_id_result,     \* st.session_state['director_id_result']
    searched_actor_name,    \* st.session_state['searched_actor_name']
    searched_director_name, \* st.session_state['searched_director_name']
    surprise_mode,          \* st.session_state['surprise_mode']
    surprise_just_shown,    \* st.session_state['surprise_just_shown'], <<>> once deleted
    GENRES,                 \* the genre catalog main.py loaded at start-up
    filters,                \* the sidebar widgets' current values
    view,                   \* what the last script run put on the screen
    calls,                  \* the API client calls the last script run made, in order
    last,                   \* the last step taken and the session state it started from
    pc                      \* "dirty": a script run is pending, "idle": waiting for the user

session == <<page, selected_movie_id, actor_id_result, director_id_result,
             searched_actor_name, searched_director_name,
             surprise_mode, surprise_just_shown>>

vars == <<page, selected_movie_id, actor_id_result, director_id_result,
          searched_actor_name, searched_director_name,
          surprise_mode, surprise_just_shown, GENRES, filters, view, calls, last, pc>>

(***************************************************************************)
(* Bounds of the model                                                     *)
(***************************************************************************)
HugeTotalPages == 502      \* total_pages of the widest remote result sets (beyond the page cap)
CatalogPages == 3          \* total_pages of a filtered query before each further filter narrows it
OldPoolPages == 2          \* total_pages of the surprise pool for the older year range
NumMovieIds == 2           \* distinct rated movie ids the remote catalog serves
PageBound == 502          \* largest page the callback-only specification starts from

(***************************************************************************)
(* Python values                                                           *)
(***************************************************************************)
None == <<>>
Some(v) == <<v>>

\* Python truthiness of an optional integer: None and 0 are falsy.
TruthyInt(o) == o # None /\ o[1] # 0

\* Python truthiness of an optional boolean (st.session_state.get(key)).
TruthyBool(o) == o # None /\ o[1]

Min(a, b) == IF a <= b THEN a ELSE b
Max(a, b) == IF a >= b THEN a ELSE b

EmptyDict == <<>>
Put(d, k, v) == [z \in DOMAIN d \cup {k} |-> IF z = k THEN v ELSE d[z]]
Del(d, k) == [z \in DOMAIN d \ {k} |-> d[z]]
GetOr(d, k, default) == IF k \in DOMAIN d THEN d[k] ELSE default

DateStr(y, m, d) == <<y, m, d>>
Str(n) == <<"str", n>>

(***************************************************************************)
(* Constants of main.py                                                    *)
(***************************************************************************)
MAX_API_PAGES == 500
DEFAULT_MIN_RATING == 60
DEFAULT_YEAR_RANGE == <<2000, 2025>>

SUPPORTED_LANGUAGES ==
    [n \in {"English", "Hindi", "Telugu", "Tamil", "Malayalam"} |->
        CASE n = "English" -> "en"
          [] n = "Hindi" -> "hi"
          [] n = "Telugu" -> "te"
          [] n = "Tamil" -> "ta"
          [] n = "Malayalam" -> "ml"]

(***************************************************************************)
(* The remote movie API (a black box to the program): a fixed catalog.     *)
(* How a request to it ends is chosen per call:                            *)
(*   "ok"        a well-formed answer                                      *)
(*   "error"     transport error, HTTP error status or undecodable body    *)
(*               (any of FailedRequests, where the kind is of interest)    *)
(*   "no_total"  (discovery) a JSON object without the total_pages field   *)
(*   "missing_field"        a JSON object without its top-level field      *)
(*   "missing_entry_field"  a list entry without one of its fields         *)
(*   "zero_results"         an empty list                                  *)
(***************************************************************************)
Outcomes == {"ok", "error"}
DiscoverOutcomes == {"ok", "error", "no_total"}
SearchOutcomes == {"ok", "error", "missing_entry_field"}
FailedRequests == {"error", "network_failure", "timeout", "http_error", "malformed_json"}
ApiOutcomes ==
    FailedRequests \cup {"ok", "no_total", "missing_field", "missing_entry_field",
                         "zero_results"}

RemoteGenres ==
    [i \in {28, 35, 18} |->
        CASE i = 28 -> "Action" [] i = 35 -> "Comedy" [] i = 18 -> "Drama"]

\* /genre/movie/list: the JSON object answered.
RemoteGenreList(outcome) ==
    CASE outcome = "zero_results" -> << >>
      [] outcome = "missing_entry_field" ->
            << [id |-> 28, name |-> "Action"], [id |-> 35] >>
      [] OTHER ->
            << [id |-> 28, name |-> "Action"], [id |-> 35, name |-> "Comedy"],
               [id |-> 18, name |-> "Drama"] >>

RemoteGenresBody(outcome) ==
    IF outcome = "missing_field" THEN [status_code |-> 7]
    ELSE [genres |-> RemoteGenreList(outcome)]

\* /search/person: the id of the first result, None when there is no result.
RemotePersonId(name) ==
    CASE name = "tom" -> Some(31)
      [] name = "nolan" -> Some(525)
      [] OTHER -> None

\* /search/person: the JSON object answered.
RemotePersonResults(name, outcome) ==
    CASE outcome = "zero_results" -> << >>
      [] outcome = "missing_entry_field" -> << [name |-> name] >>
      [] OTHER -> IF RemotePersonId(name) # None
                  THEN << [id |-> RemotePersonId(name)[1], name |-> name] >>
                  ELSE << >>

RemotePersonBody(name, outcome) ==
    IF outcome = "missing_field" THEN [page |-> 1]
    ELSE [page |-> 1, results |-> RemotePersonResults(name, outcome)]

NarrowingKeys == {"with_genres", "with_people", "with_crew", "with_original_language"}

\* /discover/movie: total_pages of the result set the parameters select.
RemoteTotalPages(params) ==
    IF "vote_count.gte" \in DOMAIN params
    THEN IF params["primary_release_date.gte"][1] >= 2000
         THEN HugeTotalPages ELSE OldPoolPages
    ELSE IF DOMAIN params \cap (NarrowingKeys \cup {"vote_average.gte"}) = {}
         THEN HugeTotalPages
         ELSE Max(0, CatalogPages - Cardinality(DOMAIN params \cap NarrowingKeys))

\* /discover/movie: the page of results; empty beyond the last page.  A page
\* holds a rated movie, a movie without rating and a rated entry without id.
RemoteResults(params) ==
    IF params["page"] \in 1..RemoteTotalPages(params)
    THEN << [id |-> Some(((params["page"] - 1) % NumMovieIds) + 1),
             vote_average |-> Some(75), vote_count |-> Some(1200)],
            [id |-> Some(NumMovieIds + 1),
             vote_average |-> None, vote_count |-> None],
            [id |-> None,
             vote_average |-> Some(81), vote_count |-> None] >>
    ELSE << >>

\* /discover/movie: the JSON object answered.
RemoteDiscover(params, outcome) ==
    CASE outcome = "no_total" -> Put(EmptyDict, "results", RemoteResults(params))
      [] outcome = "missing_field" -> Put(EmptyDict, "page", params["page"])
      [] outcome = "zero_results" ->
            Put(Put(EmptyDict, "results", << >>), "total_pages", 0)
      [] OTHER -> Put(Put(EmptyDict, "results", RemoteResults(params)),
                      "total_pages", RemoteTotalPages(params))

\* /movie/{id}: the JSON object answered.
RemoteMovie(movie_id, outcome) ==
    IF outcome = "missing_field" THEN [title |-> "untitled"] ELSE [id |-> movie_id]

(***************************************************************************)
(* api_utils.py                                                            *)
(***************************************************************************)
\* A call either returns a value or raises (an exception no except clause
\* of the function catches).
Returned(v) == [raised |-> FALSE, value |-> v]
Raised == [raised |-> TRUE, value |-> None]

\* The decoded JSON body, or None after an error: both except clauses of
\* the function return None.
_make_api_request(outcome, body) ==
    IF outcome \in FailedRequests THEN None ELSE Some(body)

\* {genre['id']: genre['name'] for genre in data['genres']}: a later entry
\* overwrites an earlier one with the same id; an entry without one of the
\* two keys raises KeyError.
load_genres(outcome) ==
    LET data == _make_api_request(outcome, RemoteGenresBody(outcome))
    IN IF data # None /\ "genres" \in DOMAIN data[1]
       THEN LET genres == data[1].genres
                Last(k) == CHOOSE i \in 1..Len(genres) :
                              /\ genres[i].id = k
                              /\ \A j \in 1..Len(genres) : genres[j].id = k => j <= i
            IN IF \A i \in 1..Len(genres) : {"id", "name"} \subseteq DOMAIN genres[i]
               THEN Returned([k \in {genres[i].id : i \in 1..Len(genres)} |->
                                genres[Last(k)].name])
               ELSE Raised
       ELSE Returned(EmptyDict)

\* data['results'][0]['id']: a first result without the key raises KeyError.
search_person(name, outcome) ==
    IF name = "" THEN Returned(None)
    ELSE LET data == _make_api_request(outcome, RemotePersonBody(name, outcome))
         IN IF data # None /\ GetOr(data[1], "results", << >>) # << >>
            THEN IF "id" \in DOMAIN data[1].results[1]
                 THEN Returned(Some(data[1].results[1].id))
                 ELSE Raised
            ELSE Returned(None)

FetchParams(query_params, p) ==
    LET a == Put(Put(Put(query_params, "page", p), "include_adult", "false"),
                 "language", "en-US")
    IN IF "sort_by" \in DOMAIN a THEN a ELSE Put(a, "sort_by", "popularity.desc")

\* The results and total_pages returned, with the request they answer.
fetch_movies(query_params, p, outcome) ==
    LET params == FetchParams(query_params, p)
        data == _make_api_request(outcome, RemoteDiscover(params, outcome))
    IN IF data # None
       THEN [results |-> GetOr(data[1], "results", << >>),
             total_pages |-> GetOr(data[1], "total_pages", 0),
             params |-> Some(params)]
       ELSE [results |-> << >>, total_pages |-> 0, params |-> Some(params)]

fetch_movie_details(movie_id, outcome) ==
    IF ~TruthyInt(movie_id) THEN None
    ELSE _make_api_request(outcome, RemoteMovie(movie_id[1], outcome))

(***************************************************************************)
(* utils.py                                                                *)
(***************************************************************************)
format_rating(rating, vote_count) ==
    IF TruthyInt(rating) /\ rating[1] > 0
    THEN IF TruthyInt(vote_count) /\ vote_count[1] > 0
         THEN <<"rating/10", rating[1], "votes", vote_count[1]>>
         ELSE <<"rating/10", rating[1]>>
    ELSE <<"N/A">>

(***************************************************************************)
(* main.py: module-level tables                                            *)
(***************************************************************************)
MoodGenreNames ==
    [m \in {"Exciting", "Romantic", "Thought-provoking", "Funny",
            "Action-packed", "Suspenseful"} |->
        CASE m = "Exciting" -> {"Action", "Adventure", "Thriller", "Science Fiction"}
          [] m = "Romantic" -> {"Romance", "Comedy"}
          [] m = "Thought-provoking" -> {"Drama", "Mystery", "Science Fiction"}
          [] m = "Funny" -> {"Comedy"}
          [] m = "Action-packed" -> {"Action", "Adventure", "Science Fiction"}
          [] m = "Suspenseful" -> {"Thriller", "Horror", "Mystery"}]

\* Empty when no genres were loaded; a mood keeps the ids of those of its
\* genre names that the catalog has (a catalog names each genre once).
MOOD_TO_GENRE_IDS ==
    IF DOMAIN GENRES = {} THEN EmptyDict
    ELSE [m \in DOMAIN MoodGenreNames |->
            {i \in DOMAIN GENRES : GENRES[i] \in MoodGenreNames[m]}]

\* The options of the genre and of the mood widget.
GENRE_OPTIONS == {"All"} \cup {GENRES[i] : i \in DOMAIN GENRES}
MOOD_OPTIONS == {"All"} \cup DOMAIN MOOD_TO_GENRE_IDS

(***************************************************************************)
(* main.py: helper functions for filtering                                 *)
(***************************************************************************)
\* GenreIdsToQuery taking "All" for the sentinel only when nothing else is
\* selected with it.
GenreIdsToQuery_all_alone(selected_genre_names, selected_mood) ==
    IF DOMAIN GENRES = {} THEN {}
    ELSE (IF selected_genre_names # {"All"}
          THEN {i \in DOMAIN GENRES : GENRES[i] \in selected_genre_names}
          ELSE {})
         \cup
         (IF selected_mood # "All" /\ selected_mood \in DOMAIN MOOD_TO_GENRE_IDS
          THEN MOOD_TO_GENRE_IDS[selected_mood]
          ELSE {})

GenreIdsToQuery(selected_genre_names, selected_mood) ==
    IF DOMAIN GENRES = {} THEN {}
    ELSE (IF "All" \notin selected_genre_names
          THEN {i \in DOMAIN GENRES : GENRES[i] \in selected_genre_names}
          ELSE {})
         \cup
         (IF selected_mood # "All" /\ selected_mood \in DOMAIN MOOD_TO_GENRE_IDS
          THEN MOOD_TO_GENRE_IDS[selected_mood]
          ELSE {})

SelectedLanguageCodes(names) ==
    LET known == SelectSeq(names, LAMBDA n : n \in DOMAIN SUPPORTED_LANGUAGES)
    IN [i \in 1..Len(known) |-> SUPPORTED_LANGUAGES[known[i]]]

_build_base_query_params(year_range, selected_genre_names, selected_mood, min_rating, selected_language_names) ==
    LET q1 == Put(Put(EmptyDict,
                      "primary_release_date.gte", DateStr(year_range[1], 1, 1)),
                      "primary_release_date.lte", DateStr(year_range[2], 12, 31))
        genre_ids_to_query == GenreIdsToQuery(selected_genre_names, selected_mood)
        q2 == IF genre_ids_to_query # {}
              THEN Put(q1, "with_genres", genre_ids_to_query) ELSE q1
        q3 == IF min_rating > 0 THEN Put(q2, "vote_average.gte", min_rating) ELSE q2
        codes == SelectedLanguageCodes(selected_language_names)
        q4 == IF /\ selected_language_names # << >>
                 /\ \A i \in 1..Len(selected_language_names) :
                        selected_language_names[i] # "Any"
                 /\ codes # << >>
              THEN Put(q3, "with_original_language", codes) ELSE q3
    IN q4

\* _get_person_id serving a name from the cache only when an id was found
\* for it (line 256 made effective).
_get_person_id_retries_not_found(person_name, cached_id, cached_name, outcome) ==
    IF person_name = ""
    THEN [result |-> None, id |-> None, name |-> None, searched |-> FALSE,
          raised |-> FALSE]
    ELSE IF Some(person_name) = cached_name /\ cached_id # None
    THEN [result |-> cached_id, id |-> cached_id, name |-> cached_name,
          searched |-> FALSE, raised |-> FALSE]
    ELSE LET found_id == search_person(person_name, outcome)
         IN IF found_id.raised
            THEN [result |-> None, id |-> cached_id, name |-> Some(person_name),
                  searched |-> TRUE, raised |-> TRUE]
            ELSE [result |-> found_id.value, id |-> found_id.value,
                  name |-> Some(person_name), searched |-> TRUE, raised |-> FALSE]

\* _get_person_id forgetting only the searched name when the name is empty.
_get_person_id_keeps_id(person_name, cached_id, cached_name, outcome) ==
    IF person_name = ""
    THEN [result |-> None, id |-> cached_id, name |-> None, searched |-> FALSE,
          raised |-> FALSE]
    ELSE IF Some(person_name) = cached_name /\ cached_name # None
    THEN [result |-> cached_id, id |-> cached_id, name |-> cached_name,
          searched |-> FALSE, raised |-> FALSE]
    ELSE LET found_id == search_person(person_name, outcome)
         IN IF found_id.raised
            THEN [result |-> None, id |-> cached_id, name |-> Some(person_name),
                  searched |-> TRUE, raised |-> TRUE]
            ELSE [result |-> found_id.value, id |-> found_id.value,
                  name |-> Some(person_name), searched |-> TRUE, raised |-> FALSE]

\* The value returned, the two session keys of the role afterwards,
\* whether search_person was called, and whether its exception passed
\* through: the name is stored before the search, the id after it.
_get_person_id(person_name, cached_id, cached_name, outcome) ==
    IF person_name = ""
    THEN [result |-> None, id |-> None, name |-> None, searched |-> FALSE,
          raised |-> FALSE]
    ELSE IF Some(person_name) = cached_name /\ cached_name # None
    THEN [result |-> cached_id, id |-> cached_id, name |-> cached_name,
          searched |-> FALSE, raised |-> FALSE]
    ELSE LET found_id == search_person(person_name, outcome)
         IN IF found_id.raised
            THEN [result |-> None, id |-> cached_id, name |-> Some(person_name),
                  searched |-> TRUE, raised |-> TRUE]
            ELSE [result |-> found_id.value, id |-> found_id.value,
                  name |-> Some(person_name), searched |-> TRUE, raised |-> FALSE]

\* WithPersonFilter without the removal of with_crew, and with the crew
\* filter set for every director found.
WithPersonFilter_both(query_params, actor_id, director_id) ==
    LET q1 == IF TruthyInt(director_id)
              THEN Put(query_params, "with_crew", Str(director_id[1]))
              ELSE query_params
    IN IF TruthyInt(actor_id)
       THEN Put(q1, "with_people", Str(actor_id[1]))
       ELSE q1

\* Lines 345-355 of main(): the person filter added to the query.
WithPersonFilter(query_params, actor_id, director_id) ==
    LET q1 == IF TruthyInt(actor_id) /\ TruthyInt(director_id) THEN query_params
              ELSE IF TruthyInt(actor_id) THEN query_params
              ELSE IF TruthyInt(director_id)
                   THEN Put(query_params, "with_crew", Str(director_id[1]))
                   ELSE query_params
    IN IF TruthyInt(actor_id)
       THEN Del(Put(q1, "with_people", Str(actor_id[1])), "with_crew")
       ELSE q1

person_id_to_query(actor_id, director_id) ==
    IF TruthyInt(actor_id) THEN actor_id ELSE None

filters_applied(query_params, actor_id, director_id) ==
    \/ "with_genres" \in DOMAIN query_params
    \/ TruthyInt(person_id_to_query(actor_id, director_id))
    \/ "with_crew" \in DOMAIN query_params
    \/ ("vote_average.gte" \in DOMAIN query_params
            /\ query_params["vote_average.gte"] # 0)
    \/ "with_original_language" \in DOMAIN query_params

surprise_query(year_range) ==
    Put(Put(Put(Put(Put(EmptyDict,
        "sort_by", "popularity.desc"),
        "vote_average.gte", 70),
        "vote_count.gte", 300),
        "primary_release_date.gte", DateStr(year_range[1], 1, 1)),
        "primary_release_date.lte", DateStr(year_range[2], 12, 31))

\* MaxPageOf without the page cap.
MaxPageOf_uncapped(total_pages) ==
    IF total_pages # 0 THEN total_pages ELSE 1

\* max_page / max_display_page: min(total, MAX_API_PAGES) if total else 1.
MaxPageOf(total_pages) ==
    IF total_pages # 0 THEN Min(total_pages, MAX_API_PAGES) ELSE 1

(***************************************************************************)
(* The sidebar widgets.  A widget keeps its value across script runs; the  *)
(* user changes one widget at a time, which causes a script run.           *)
(***************************************************************************)
Filters(years, genres, mood, languages, actor, director, rating) ==
    [year_range |-> years, selected_genres |-> genres, selected_mood |-> mood,
     selected_languages |-> languages, actor_name |-> actor,
     director_name |-> director, min_rating |-> rating]

DefaultFilters ==
    Filters(DEFAULT_YEAR_RANGE, {"All"}, "All", <<"Any">>, "", "", DEFAULT_MIN_RATING)

\* The filter selections the user moves between.
FilterSelections ==
    { DefaultFilters,
      Filters(DEFAULT_YEAR_RANGE, {"All"}, "All", <<"Any">>, "", "", 0),
      Filters(DEFAULT_YEAR_RANGE, {"Comedy"}, "Funny", <<"Hindi">>, "tom", "", 75),
      Filters(<<1990, 1999>>, {"All", "Drama"}, "All", <<"Any">>, "tom", "nolan", 0) }

(***************************************************************************)
(* What a script run shows                                                 *)
(***************************************************************************)
NoView ==
    [kind |-> "none", back_button |-> FALSE, movies |-> << >>, shown |-> None,
     header |-> "", select_ids |-> {}, pagination |-> FALSE,
     prev_enabled |-> FALSE, next_enabled |-> FALSE,
     current_page |-> None, total_pages |-> None, max_display_page |-> None,
     initial_total_pages |-> None, details |-> None]

\* The detail branch of main(): the back button and the movie's details.
DetailView(movie_details) ==
    [NoView EXCEPT !.kind = "detail", !.back_button = TRUE,
                   !.header = IF movie_details # None THEN "details"
                              ELSE "could not load movie details",
                   !.details = movie_details]

\* An exception leaves main(): the script run ends with the traceback shown.
ExceptionView == [NoView EXCEPT !.kind = "exception", !.header = "KeyError"]

\* The surprise branch of main() ends in st.rerun(): nothing below it is shown.
RerunView(initial_total_pages) ==
    [NoView EXCEPT !.kind = "rerun", !.initial_total_pages = Some(initial_total_pages)]

\* The ids of the movies that get a "view details" button.
SelectIds(movies) ==
    {movies[i].id[1] : i \in {j \in 1..Len(movies) :
        /\ format_rating(movies[j].vote_average, movies[j].vote_count) # <<"N/A">>
        /\ TruthyInt(movies[j].id)}}

\* disabled= of the "Previous" and of the "Next" button.
PreviousDisabled(current_page) == current_page <= 1

\* NextDisabled with a strict comparison.
NextDisabled_strict(current_page, max_display_page) == current_page > max_display_page

NextDisabled(current_page, max_display_page) == current_page >= max_display_page

\* The grid branch of main() from "Display Movie Grid" on.
GridView(fetched, current_page, just_shown, applied) ==
    IF fetched.results # << >>
    THEN LET max_display_page == MaxPageOf(fetched.total_pages)
         IN [NoView EXCEPT
                !.kind = "grid",
                !.movies = fetched.results,
                !.shown = fetched.params,
                !.header = IF TruthyBool(just_shown) THEN "Surprise Movies!"
                           ELSE IF applied THEN "Recommended Movies"
                           ELSE "Popular Movies",
                !.select_ids = SelectIds(fetched.results),
                !.pagination = (max_display_page > 1),
                !.prev_enabled = (max_display_page > 1
                                    /\ ~PreviousDisabled(current_page)),
                !.next_enabled = (max_display_page > 1
                                    /\ ~NextDisabled(current_page, max_display_page)),
                !.current_page = Some(current_page),
                !.total_pages = Some(fetched.total_pages),
                !.max_display_page = Some(max_display_page)]
    ELSE [NoView EXCEPT
                !.kind = "grid",
                !.shown = fetched.params,
                !.header = "No movies found",
                !.current_page = Some(current_page),
                !.total_pages = Some(fetched.total_pages)]

(***************************************************************************)
(* Callbacks (main.py, utils.py): their effect on the session state        *)
(***************************************************************************)
\* set_selected_movie that leaves the surprise flag alone.
set_selected_movie_keeps_flag(movie_id) ==
    /\ selected_movie_id' = Some(movie_id)
    /\ UNCHANGED <<page, actor_id_result, director_id_result, searched_actor_name,
                   searched_director_name, surprise_mode, surprise_just_shown>>

set_selected_movie(movie_id) ==
    /\ selected_movie_id' = Some(movie_id)
    /\ surprise_just_shown' = None
    /\ UNCHANGED <<page, actor_id_result, director_id_result,
                   searched_actor_name, searched_director_name, surprise_mode>>

clear_selected_movie ==
    /\ selected_movie_id' = None
    /\ UNCHANGED <<page, actor_id_result, director_id_result,
                   searched_actor_name, searched_director_name,
                   surprise_mode, surprise_just_shown>>

\* trigger_surprise_me that leaves the selected movie alone.
trigger_surprise_me_keeps_selection ==
    /\ surprise_mode' = TRUE
    /\ page' = 1
    /\ surprise_just_shown' = None
    /\ UNCHANGED <<selected_movie_id, actor_id_result, director_id_result,
                   searched_actor_name, searched_director_name>>

trigger_surprise_me ==
    /\ surprise_mode' = TRUE
    /\ page' = 1
    /\ selected_movie_id' = None
    /\ surprise_just_shown' = None
    /\ UNCHANGED <<actor_id_result, director_id_result,
                   searched_actor_name, searched_director_name>>

\* previous_page that clears the surprise flag outside the page test.
previous_page_always_clears ==
    /\ page' = IF page > 1 THEN page - 1 ELSE page
    /\ surprise_just_shown' = None
    /\ UNCHANGED <<selected_movie_id, actor_id_result, director_id_result,
                   searched_actor_name, searched_director_name, surprise_mode>>

previous_page ==
    /\ IF page > 1
       THEN page' = page - 1 /\ surprise_just_shown' = None
       ELSE UNCHANGED <<page, surprise_just_shown>>
    /\ UNCHANGED <<selected_movie_id, actor_id_result, director_id_result,
                   searched_actor_name, searched_director_name, surprise_mode>>

\* next_page that stops at the page cap.
next_page_capped ==
    /\ page' = Min(page + 1, MAX_API_PAGES)
    /\ surprise_just_shown' = None
    /\ UNCHANGED <<selected_movie_id, actor_id_result, director_id_result,
                   searched_actor_name, searched_director_name, surprise_mode>>

next_page ==
    /\ page' = page + 1
    /\ surprise_just_shown' = None
    /\ UNCHANGED <<selected_movie_id, actor_id_result, director_id_result,
                   searched_actor_name, searched_director_name, surprise_mode>>

\* initialize_session_state: only 'surprise_just_shown' is ever deleted.
initialize_session_state(just_shown) ==
    IF just_shown = None THEN Some(FALSE) ELSE just_shown

\* RandomPages drawing from 0, as random.randrange(max_page + 1) would.
RandomPages_from0(max_page) == IF max_page > 1 THEN 0..max_page ELSE {1}

\* random.randint(1, max_page) if max_page > 1 else 1
RandomPages(max_page) == IF max_page > 1 THEN 1..max_page ELSE {1}

(***************************************************************************)
(* The state machine                                                       *)
(***************************************************************************)
SessionRec ==
    [page |-> page, selected_movie_id |-> selected_movie_id,
     actor_id_result |-> actor_id_result, director_id_result |-> director_id_result,
     searched_actor_name |-> searched_actor_name,
     searched_director_name |-> searched_director_name,
     surprise_mode |-> surprise_mode, surprise_just_shown |-> surprise_just_shown]

\* ShowsDetail with a comparison instead of the truth test.
ShowsDetail_above1 == selected_movie_id # None /\ selected_movie_id[1] > 1

\* "if selected_movie_id:" in main(): the detail view instead of the grid.
ShowsDetail == TruthyInt(selected_movie_id)

\* The defaults of initialize_session_state, before the first script run.
Init ==
    /\ page = 1
    /\ selected_movie_id = None
    /\ actor_id_result = None
    /\ director_id_result = None
    /\ searched_actor_name = None
    /\ searched_director_name = None
    /\ surprise_mode = FALSE
    /\ surprise_just_shown = Some(FALSE)
    /\ \E outcome \in Outcomes : GENRES = load_genres(outcome).value
    /\ filters = DefaultFilters
    /\ view = NoView
    /\ calls = << >>
    /\ last = [op |-> "start", arg |-> None, from |-> None]
    /\ pc = "dirty"

\* main() with a movie selected: the detail view.
MainDetail ==
    /\ pc = "dirty"
    /\ ShowsDetail
    /\ surprise_just_shown' = initialize_session_state(surprise_just_shown)
    /\ \E outcome \in Outcomes :
        view' = DetailView(fetch_movie_details(selected_movie_id, outcome))
    /\ calls' = <<"fetch_movie_details">>
    /\ last' = [op |-> "main_detail", arg |-> None, from |-> None]
    /\ pc' = "idle"
    /\ UNCHANGED <<page, selected_movie_id, actor_id_result, director_id_result,
                   searched_actor_name, searched_director_name, surprise_mode,
                   GENRES, filters>>

\* main() in surprise mode: learn the size of the pool, pick a page, fetch
\* it, commit it, and start the script again (st.rerun()); the movies of
\* the second fetch are dropped with the rest of the script run.
MainSurprise ==
    /\ pc = "dirty"
    /\ ~ShowsDetail
    /\ surprise_mode
    /\ \E outcome \in DiscoverOutcomes :
        LET first == fetch_movies(surprise_query(filters.year_range), 1, outcome)
            max_page == MaxPageOf(first.total_pages)
        IN \E page_to_fetch \in RandomPages(max_page) :
            /\ page' = page_to_fetch
            /\ view' = RerunView(first.total_pages)
    /\ surprise_mode' = FALSE
    /\ surprise_just_shown' = Some(TRUE)
    /\ calls' = <<"fetch_movies", "fetch_movies">>
    /\ last' = [op |-> "main_surprise", arg |-> None, from |-> None]
    /\ pc' = "dirty"
    /\ UNCHANGED <<selected_movie_id, actor_id_result, director_id_result,
                   searched_actor_name, searched_director_name, GENRES, filters>>

\* The outcomes a resolution of the name can meet: there is one per call of
\* search_person, and no call for an empty or an already searched name.
SearchOutcomesFor(person_name, cached_name) ==
    IF person_name = "" \/ Some(person_name) = cached_name THEN {"ok"}
    ELSE SearchOutcomes

\* main() otherwise: the regular grid.  An exception of search_person ends
\* the script run where it is raised, with the session keys written so far.
MainGrid ==
    /\ pc = "dirty"
    /\ ~ShowsDetail
    /\ ~surprise_mode
    /\ \E actor_outcome \in SearchOutcomesFor(filters.actor_name, searched_actor_name) :
       \E director_outcome \in
              SearchOutcomesFor(filters.director_name, searched_director_name) :
       \E outcome \in DiscoverOutcomes :
        LET just_shown == initialize_session_state(surprise_just_shown)
            base == _build_base_query_params(filters.year_range,
                        filters.selected_genres, filters.selected_mood,
                        filters.min_rating, filters.selected_languages)
            actor == _get_person_id(filters.actor_name, actor_id_result,
                                    searched_actor_name, actor_outcome)
            director == _get_person_id(filters.director_name, director_id_result,
                                       searched_director_name, director_outcome)
            with_person == WithPersonFilter(base, actor.result, director.result)
            applied == filters_applied(with_person, actor.result, director.result)
            query_params == IF ~applied
                            THEN Put(with_person, "sort_by", "popularity.desc")
                            ELSE with_person
            fetched == fetch_movies(query_params, page, outcome)
        IN /\ actor_id_result' = actor.id
           /\ searched_actor_name' = actor.name
           /\ director_id_result' =
                  IF actor.raised THEN director_id_result ELSE director.id
           /\ searched_director_name' =
                  IF actor.raised THEN searched_director_name ELSE director.name
           /\ surprise_just_shown' = just_shown
           /\ view' = IF actor.raised \/ director.raised THEN ExceptionView
                      ELSE GridView(fetched, page, just_shown, applied)
           /\ calls' = (IF actor.searched THEN <<"search_person">> ELSE << >>)
                       \o (IF ~actor.raised /\ director.searched
                           THEN <<"search_person">> ELSE << >>)
                       \o (IF actor.raised \/ director.raised
                           THEN << >> ELSE <<"fetch_movies">>)
    /\ last' = [op |-> "main_grid", arg |-> None, from |-> None]
    /\ pc' = "idle"
    /\ UNCHANGED <<page, selected_movie_id, surprise_mode, GENRES, filters>>

\* A user event starts a new script run; what the previous one showed is
\* replaced by what the new one shows.
Event(op, arg) ==
    /\ last' = [op |-> op, arg |-> arg, from |-> None]
    /\ view' = NoView
    /\ calls' = << >>
    /\ pc' = "dirty"
    /\ UNCHANGED GENRES

\* The user changes the sidebar widgets to another selection.
ChangeFilters ==
    /\ pc = "idle"
    /\ \E f \in FilterSelections \ {filters} : filters' = f
    /\ Event("filters", None)
    /\ UNCHANGED session

\* The "view details" button of a movie of the grid.
ClickSelect ==
    /\ pc = "idle"
    /\ \E movie_id \in view.select_ids :
        /\ set_selected_movie(movie_id)
        /\ Event("select", Some(movie_id))
    /\ UNCHANGED filters

\* The "Back to Recommendations" button of the detail view.
ClickBack ==
    /\ pc = "idle"
    /\ view.back_button
    /\ clear_selected_movie
    /\ Event("back", None)
    /\ UNCHANGED filters

\* The "Surprise Me!" button of the sidebar, present in every view.
ClickSurprise ==
    /\ pc = "idle"
    /\ trigger_surprise_me
    /\ Event("trigger_surprise", None)
    /\ UNCHANGED filters

\* The "Previous" button, when shown and not disabled.
ClickPrevious ==
    /\ pc = "idle"
    /\ view.prev_enabled
    /\ previous_page
    /\ Event("previous_page", None)
    /\ UNCHANGED filters

\* The "Next" button, when shown and not disabled.
ClickNext ==
    /\ pc = "idle"
    /\ view.next_enabled
    /\ next_page
    /\ Event("next_page", None)
    /\ UNCHANGED filters

Next ==
    \/ MainDetail
    \/ MainSurprise
    \/ MainGrid
    \/ ChangeFilters
    \/ ClickSelect
    \/ ClickBack
    \/ ClickSurprise
    \/ ClickPrevious
    \/ ClickNext

Spec == Init /\ [][Next]_vars

(***************************************************************************)
(* The callbacks on their own: they start from any session state and are   *)
(* called in any order, whatever the screen offers.                        *)
(***************************************************************************)
InitCallbacks ==
    /\ page \in 1..PageBound
    /\ selected_movie_id \in {None} \cup {Some(m) : m \in 1..NumMovieIds}
    /\ \E name \in {"", "tom"} :
        /\ searched_actor_name = IF name = "" THEN None ELSE Some(name)
        /\ actor_id_result = search_person(name, "ok").value
    /\ director_id_result = None
    /\ searched_director_name = None
    /\ surprise_mode \in BOOLEAN
    /\ surprise_just_shown \in {None, Some(FALSE), Some(TRUE)}
    /\ GENRES = load_genres("ok").value
    /\ filters = DefaultFilters
    /\ view = NoView
    /\ calls = << >>
    /\ last = [op |-> "start", arg |-> None, from |-> None]
    /\ pc = "idle"

Called(op, arg) ==
    /\ last' = [op |-> op, arg |-> arg, from |-> Some(SessionRec)]
    /\ UNCHANGED <<GENRES, filters, view, calls, pc>>

CallSetSelectedMovie ==
    \E movie_id \in 1..NumMovieIds :
        set_selected_movie(movie_id) /\ Called("select", Some(movie_id))

CallClearSelectedMovie == clear_selected_movie /\ Called("back", None)

CallTriggerSurpriseMe == trigger_surprise_me /\ Called("trigger_surprise", None)

CallPreviousPage == previous_page /\ Called("previous_page", None)

CallNextPage == page < PageBound /\ next_page /\ Called("next_page", None)

NextCallbacks ==
    \/ CallSetSelectedMovie
    \/ CallClearSelectedMovie
    \/ CallTriggerSurpriseMe
    \/ CallPreviousPage
    \/ CallNextPage

SpecCallbacks == InitCallbacks /\ [][NextCallbacks]_vars

(***************************************************************************)
(* Person resolution on its own: _get_person_id is called for either role  *)
(* with any name and any answer of the remote API, in any order.  `last`   *)
(* keeps the call, the session state it started from, and the name each    *)
(* role was last called with.                                              *)
(***************************************************************************)
PersonTypes == {"actor", "director"}
PersonNames == {"", "tom", "nolan", "nobody"}

InitResolve ==
    /\ page = 1
    /\ selected_movie_id = None
    /\ actor_id_result = None
    /\ director_id_result = None
    /\ searched_actor_name = None
    /\ searched_director_name = None
    /\ surprise_mode = FALSE
    /\ surprise_just_shown = Some(FALSE)
    /\ GENRES = load_genres("ok").value
    /\ filters = DefaultFilters
    /\ view = NoView
    /\ calls = << >>
    /\ last = [op |-> "start", arg |-> None, from |-> None,
               asked |-> [t \in PersonTypes |-> None]]
    /\ pc = "idle"

\* st.session_state[f'{person_type}_id_result'] and
\* st.session_state[f'searched_{person_type}_name'] of the session record.
CachedId(s, person_type) ==
    IF person_type = "actor" THEN s.actor_id_result ELSE s.director_id_result

CachedName(s, person_type) ==
    IF person_type = "actor" THEN s.searched_actor_name ELSE s.searched_director_name

CallGetPersonId ==
    \E person_type \in PersonTypes, person_name \in PersonNames, outcome \in ApiOutcomes :
        LET r == _get_person_id(person_name, CachedId(SessionRec, person_type),
                                CachedName(SessionRec, person_type), outcome)
        IN /\ IF person_type = "actor"
              THEN /\ actor_id_result' = r.id
                   /\ searched_actor_name' = r.name
                   /\ UNCHANGED <<director_id_result, searched_director_name>>
              ELSE /\ director_id_result' = r.id
                   /\ searched_director_name' = r.name
                   /\ UNCHANGED <<actor_id_result, searched_actor_name>>
           /\ calls' = IF r.searched THEN <<"search_person">> ELSE << >>
           /\ last' = [op |-> "_get_person_id",
                       arg |-> Some([person_type |-> person_type,
                                     person_name |-> person_name,
                                     previous |-> last.asked[person_type],
                                     outcome |-> outcome,
                                     result |-> r.result, searched |-> r.searched,
                                     raised |-> r.raised]),
                       from |-> Some(SessionRec),
                       asked |-> [last.asked EXCEPT ![person_type] = Some(person_name)]]
           /\ UNCHANGED <<page, selected_movie_id, surprise_mode, surprise_just_shown,
                          GENRES, filters, view, pc>>

NextResolve == CallGetPersonId

SpecResolve == InitResolve /\ [][NextResolve]_vars

(***************************************************************************)
(* The discovery query on its own: the regular branch of main() builds it  *)
(* from any genre catalog, any selection the widgets offer for it and any  *)
(* pair of resolved person ids.                                            *)
(***************************************************************************)
GenreCatalogs ==
    { RemoteGenres, [i \in {35, 18} |-> RemoteGenres[i]], EmptyDict }

PersonIds == {None} \cup {RemotePersonId(n) : n \in PersonNames}

InitQuery ==
    /\ page = 1
    /\ selected_movie_id = None
    /\ actor_id_result \in PersonIds
    /\ director_id_result \in PersonIds
    /\ searched_actor_name = (IF actor_id_result = None THEN None
                              ELSE Some(CHOOSE n \in PersonNames :
                                            RemotePersonId(n) = actor_id_result))
    /\ searched_director_name = (IF director_id_result = None THEN None
                                 ELSE Some(CHOOSE n \in PersonNames :
                                               RemotePersonId(n) = director_id_result))
    /\ surprise_mode = FALSE
    /\ surprise_just_shown = Some(FALSE)
    /\ GENRES \in GenreCatalogs
    /\ \E years \in {DEFAULT_YEAR_RANGE, <<1990, 1999>>} :
       \E genres \in SUBSET GENRE_OPTIONS :
       \E mood \in MOOD_OPTIONS :
       \E languages \in {<<"Any">>, <<"Hindi", "Tamil">>} :
       \E rating \in {0, DEFAULT_MIN_RATING} :
        filters = Filters(years, genres, mood, languages,
                          IF searched_actor_name = None THEN ""
                          ELSE searched_actor_name[1],
                          IF searched_director_name = None THEN ""
                          ELSE searched_director_name[1],
                          rating)
    /\ view = NoView
    /\ calls = << >>
    /\ last = [op |-> "start", arg |-> None, from |-> None]
    /\ pc = "dirty"

\* Lines 339-364 of main(): the query handed to fetch_movies.
BuildQuery ==
    /\ pc = "dirty"
    /\ LET base == _build_base_query_params(filters.year_range,
                        filters.selected_genres, filters.selected_mood,
                        filters.min_rating, filters.selected_languages)
           with_person == WithPersonFilter(base, actor_id_result, director_id_result)
           applied == filters_applied(with_person, actor_id_result, director_id_result)
           query_params == IF ~applied
                           THEN Put(with_person, "sort_by", "popularity.desc")
                           ELSE with_person
       IN last' = [op |-> "build_query", arg |-> Some(query_params), from |-> None]
    /\ pc' = "idle"
    /\ UNCHANGED <<session, GENRES, filters, view, calls>>

NextQuery == BuildQuery

SpecQuery == InitQuery /\ [][NextQuery]_vars

(***************************************************************************)
(* The API client on its own: each of its four functions is called with    *)
(* any argument and meets any answer of the remote API.  `last` keeps the  *)
(* function, the answer, whether the call raised, and whether it returned  *)
(* the function's failure value.                                           *)
(***************************************************************************)
ApiOps == {"load_genres", "search_person", "fetch_movies", "fetch_movie_details"}

InitApi ==
    /\ page \in 1..CatalogPages
    /\ selected_movie_id \in {None} \cup {Some(m) : m \in 1..NumMovieIds}
    /\ actor_id_result = None
    /\ director_id_result = None
    /\ searched_actor_name = None
    /\ searched_director_name = None
    /\ surprise_mode = FALSE
    /\ surprise_just_shown = Some(FALSE)
    /\ GENRES = load_genres("ok").value
    /\ filters \in FilterSelections
    /\ view = NoView
    /\ calls = << >>
    /\ last = [op |-> "start", arg |-> None, from |-> None]
    /\ pc = "idle"

ApiCalled(op, outcome, raised, sentinel) ==
    /\ last' = [op |-> op,
                arg |-> Some([outcome |-> outcome, raised |-> raised,
                              sentinel |-> sentinel]),
                from |-> None]
    /\ calls' = <<op>>
    /\ UNCHANGED <<session, GENRES, filters, view, pc>>

CallLoadGenres ==
    \E outcome \in ApiOutcomes :
        LET r == load_genres(outcome)
        IN ApiCalled("load_genres", outcome, r.raised,
                     ~r.raised /\ DOMAIN r.value = {})

CallSearchPerson ==
    \E outcome \in ApiOutcomes, name \in PersonNames :
        LET r == search_person(name, outcome)
        IN ApiCalled("search_person", outcome, r.raised,
                     ~r.raised /\ r.value = None)

CallFetchMovies ==
    \E outcome \in ApiOutcomes :
        LET query_params == _build_base_query_params(filters.year_range,
                                filters.selected_genres, filters.selected_mood,
                                filters.min_rating, filters.selected_languages)
            r == fetch_movies(query_params, page, outcome)
        IN ApiCalled("fetch_movies", outcome, FALSE,
                     r.results = << >> /\ r.total_pages = 0)

CallFetchMovieDetails ==
    \E outcome \in ApiOutcomes :
        LET r == fetch_movie_details(selected_movie_id, outcome)
        IN ApiCalled("fetch_movie_details", outcome, FALSE, r = None)

NextApi ==
    \/ CallLoadGenres
    \/ CallSearchPerson
    \/ CallFetchMovies
    \/ CallFetchMovieDetails

SpecApi == InitApi /\ [][NextApi]_vars

(***************************************************************************)
(* Properties                                                              *)
(***************************************************************************)
MainOps == {"main_detail", "main_surprise", "main_grid"}

\* C1: whenever the grid is on the screen, page is at most the total_pages
\* value the discovery call of that script run returned for the current
\* filters.  (Read in the claim's favour: only a script run whose discovery
\* call reported at least one page is held to it.)
C1_PageWithinTotalPages ==
    (view.kind = "grid" /\ view.total_pages[1] >= 1) => page <= view.total_pages[1]

\* C2: page is an integer >= 1 in every reachable state.
C2_PageAtLeastOne == page \in Nat /\ page >= 1

\* A page above 1 was stepped back to page 1.
C2_Witness == last.op = "previous_page" /\ page = 1

\* C3: the first grid shown after a surprise script run displays the answer
\* to the surprise query at the committed page, whatever the other filters.
C3_SurpriseShowsSurpriseQuery ==
    [][(last.op = "main_surprise" /\ last'.op = "main_grid")
        => view'.shown = Some(FetchParams(surprise_query(filters.year_range), page))]_vars

\* C4: trigger_surprise sets surprise_mode, page = 1, no selected movie and no
\* surprise_just_shown; the script run after it is the surprise run, which
\* commits a page, clears surprise_mode and sets surprise_just_shown; no
\* script run ends with surprise_mode set.
C4_SurpriseHandshake ==
    [][ /\ (last'.op = "trigger_surprise"
              => /\ surprise_mode' /\ page' = 1
                 /\ selected_movie_id' = None /\ surprise_just_shown' = None)
        /\ (last.op = "trigger_surprise" => last'.op = "main_surprise")
        /\ (last'.op = "main_surprise"
              => /\ ~surprise_mode' /\ surprise_just_shown' = Some(TRUE)
                 /\ page' >= 1 /\ view'.kind = "rerun")
        /\ (last'.op \in MainOps => ~surprise_mode') ]_vars

\* The surprise script run committed a page other than the one the trigger set.
C4_Witness ==
    /\ last.op = "main_surprise" /\ page > 1
    /\ ~surprise_mode /\ surprise_just_shown = Some(TRUE)

\* C5: the page a surprise script run commits lies in
\* [1, min(total_pages, 500)] for the total_pages of its page-1 fetch, and is
\* 1 when that fetch reported 0.
C5_SurprisePageInRange ==
    view.kind = "rerun" =>
        LET total == view.initial_total_pages[1]
        IN /\ page >= 1
           /\ total = 0 => page = 1
           /\ total > 0 => (page <= total /\ page <= 500)

\* The pool is larger than the cap and the last page under the cap was drawn.
C5_Witness ==
    /\ view.kind = "rerun" /\ view.initial_total_pages[1] > 500 /\ page = 500

\* C6: after a script run with a movie id stored, the detail view is on the
\* screen, with no movie grid and no pagination controls, and the script run
\* made no discovery fetch and no person search.
C6_DetailSuppressesGrid ==
    (pc = "idle" /\ selected_movie_id # None) =>
        /\ view.kind = "detail" /\ view.back_button
        /\ view.movies = << >> /\ view.select_ids = {}
        /\ ~view.pagination /\ ~view.prev_enabled /\ ~view.next_enabled
        /\ \A i \in 1..Len(calls) : calls[i] \notin {"fetch_movies", "search_person"}

\* A movie of the grid was selected and the script run after it completed.
C6_Witness ==
    pc = "idle" /\ selected_movie_id # None /\ last.op = "main_detail"

\* C7: select(movie_id) ends in the Detail state with that id stored and
\* surprise_just_shown cleared; back ends in the Grid state with no id stored.
C7_SelectAndBack ==
    /\ last.op = "select" =>
         /\ selected_movie_id = last.arg /\ selected_movie_id # None
         /\ ShowsDetail
         /\ surprise_just_shown = None
    /\ last.op = "back" => (selected_movie_id = None /\ ~ShowsDetail)

\* A movie was selected in a Grid state that had just shown a surprise.
C7_Witness ==
    /\ last.op = "select"
    /\ last.from[1].selected_movie_id = None
    /\ last.from[1].surprise_just_shown = Some(TRUE)

\* C8: previous_page at page 1 changes no session field; at a page above 1
\* it takes exactly one from page and clears surprise_just_shown.
C8_PreviousPage ==
    last.op = "previous_page" =>
        LET before == last.from[1]
        IN /\ before.page = 1 => SessionRec = before
           /\ before.page > 1 =>
                SessionRec = [before EXCEPT !.page = before.page - 1,
                                            !.surprise_just_shown = None]

\* previous_page was called at page 1 with the surprise flag set.
C8_Witness ==
    /\ last.op = "previous_page"
    /\ last.from[1].page = 1
    /\ last.from[1].surprise_just_shown = Some(TRUE)

\* C9: next_page adds exactly one to page and clears surprise_just_shown,
\* from every page, the pages at and beyond the page cap included.
C9_NextPage ==
    last.op = "next_page" =>
        /\ page = last.from[1].page + 1
        /\ surprise_just_shown = None

\* next_page was called at a page no max_display_page can exceed.
C9_Witness ==
    last.op = "next_page" /\ last.from[1].page >= MAX_API_PAGES

\* C10: a script run that shows movies computes max_display_page as
\* min(total_pages, 500), or 1 when total_pages is 0, and enables "Next" only
\* below it; with total_pages = 0 no pagination control is enabled.
C10_NextOnlyBelowMax ==
    /\ view.next_enabled => (view.kind = "grid" /\ view.movies # << >>)
    /\ (view.kind = "grid" /\ view.movies # << >>) =>
        LET total == view.total_pages[1]
            expected == IF total = 0 THEN 1 ELSE IF total < 500 THEN total ELSE 500
        IN /\ view.max_display_page = Some(expected)
           /\ page >= expected => ~view.next_enabled
           /\ total = 0 => (~view.prev_enabled /\ ~view.next_enabled)

\* Movies are shown although the discovery answer carried no total_pages.
C10_Witness ==
    /\ view.kind = "grid" /\ view.movies # << >>
    /\ view.total_pages = Some(0) /\ view.max_display_page = Some(1)

\* The other role of a person type.
OtherType(person_type) == IF person_type = "actor" THEN "director" ELSE "actor"

\* C11: when _get_person_id is called for a role with the non-empty name
\* that the previous call for that role was given, it does not call
\* search_person (so that the two calls search at most once) and returns
\* the id the session state holds for the role, also when that id is None.
C11_SecondCallServedFromCache ==
    (last.op = "_get_person_id" /\ last.arg[1].person_name # ""
        /\ last.arg[1].previous = Some(last.arg[1].person_name))
    => /\ ~last.arg[1].searched
       /\ calls = << >>
       /\ ~last.arg[1].raised
       /\ last.arg[1].result = CachedId(last.from[1], last.arg[1].person_type)
       /\ CachedId(SessionRec, last.arg[1].person_type)
            = CachedId(last.from[1], last.arg[1].person_type)

\* A second call with the name of a person known not to exist.
C11_Witness ==
    /\ last.op = "_get_person_id"
    /\ last.arg[1].person_name = "nobody"
    /\ last.arg[1].previous = Some("nobody")
    /\ CachedId(last.from[1], last.arg[1].person_type) = None
    /\ ~last.arg[1].searched
    /\ last.arg[1].result = None

\* C12: _get_person_id with an empty name returns None, leaves both session
\* keys of its role None, does not call search_person, and leaves the keys
\* of the other role (and the rest of the session state) as they were.
C12_EmptyNameClearsRole ==
    (last.op = "_get_person_id" /\ last.arg[1].person_name = "")
    => /\ last.arg[1].result = None
       /\ ~last.arg[1].raised
       /\ ~last.arg[1].searched
       /\ calls = << >>
       /\ CachedId(SessionRec, last.arg[1].person_type) = None
       /\ CachedName(SessionRec, last.arg[1].person_type) = None
       /\ CachedId(SessionRec, OtherType(last.arg[1].person_type))
            = CachedId(last.from[1], OtherType(last.arg[1].person_type))
       /\ CachedName(SessionRec, OtherType(last.arg[1].person_type))
            = CachedName(last.from[1], OtherType(last.arg[1].person_type))
       /\ SessionRec.page = last.from[1].page
       /\ SessionRec.selected_movie_id = last.from[1].selected_movie_id
       /\ SessionRec.surprise_mode = last.from[1].surprise_mode
       /\ SessionRec.surprise_just_shown = last.from[1].surprise_just_shown

\* An empty name for a role whose keys held a person, the other role's too.
C12_Witness ==
    /\ last.op = "_get_person_id"
    /\ last.arg[1].person_name = ""
    /\ CachedId(last.from[1], last.arg[1].person_type) # None
    /\ CachedName(last.from[1], last.arg[1].person_type) # None
    /\ CachedId(SessionRec, OtherType(last.arg[1].person_type)) # None
    /\ CachedName(SessionRec, OtherType(last.arg[1].person_type)) # None
    /\ CachedId(SessionRec, last.arg[1].person_type) = None

\* C13: the query built from an actor id and a director id holds with_people
\* (the actor id) and no with_crew when both ids are there, with_crew (the
\* director id) and no with_people when only the director id is there,
\* with_people and no with_crew when only the actor id is there, and
\* neither key when neither id is there.
C13_PersonPrecedence ==
    last.op = "build_query" =>
        LET q == last.arg[1]
            a == actor_id_result
            d == director_id_result
        IN /\ (a # None /\ d # None) =>
                (/\ "with_people" \in DOMAIN q /\ q["with_people"] = Str(a[1])
                 /\ "with_crew" \notin DOMAIN q)
           /\ (a = None /\ d # None) =>
                (/\ "with_crew" \in DOMAIN q /\ q["with_crew"] = Str(d[1])
                 /\ "with_people" \notin DOMAIN q)
           /\ (a # None /\ d = None) =>
                (/\ "with_people" \in DOMAIN q /\ q["with_people"] = Str(a[1])
                 /\ "with_crew" \notin DOMAIN q)
           /\ (a = None /\ d = None) =>
                (/\ "with_people" \notin DOMAIN q
                 /\ "with_crew" \notin DOMAIN q)

\* A query built with both ids there.
C13_Witness ==
    /\ last.op = "build_query"
    /\ actor_id_result = Some(31)
    /\ director_id_result = Some(525)
    /\ "with_people" \in DOMAIN last.arg[1]
    /\ last.arg[1]["with_people"] = Str(31)

\* The ids the catalog gives the selected genre names and the mood.
SelectedGenreIds == {i \in DOMAIN GENRES : GENRES[i] \in filters.selected_genres}

MoodGenreIds ==
    IF filters.selected_mood \in DOMAIN MoodGenreNames
    THEN {i \in DOMAIN GENRES : GENRES[i] \in MoodGenreNames[filters.selected_mood]}
    ELSE {}

ExpectedGenreIds ==
    IF "All" \in filters.selected_genres
    THEN (IF filters.selected_mood # "All" THEN MoodGenreIds ELSE {})
    ELSE SelectedGenreIds \cup MoodGenreIds

\* C14: with "All" among the selected genres the query's with_genres holds
\* exactly the ids of the selected mood (no mood: no with_genres); without
\* "All" it holds the ids of the selected genres and of the mood together;
\* the key is absent when there is no id to hold.
C14_GenreFilter ==
    last.op = "build_query" =>
        IF ExpectedGenreIds = {}
        THEN "with_genres" \notin DOMAIN last.arg[1]
        ELSE /\ "with_genres" \in DOMAIN last.arg[1]
             /\ last.arg[1]["with_genres"] = ExpectedGenreIds

\* "All" selected together with a genre, and a mood: only the mood's ids.
C14_Witness ==
    /\ last.op = "build_query"
    /\ filters.selected_genres = {"All", "Drama"}
    /\ filters.selected_mood = "Funny"
    /\ "with_genres" \in DOMAIN last.arg[1]
    /\ last.arg[1]["with_genres"] = {35}

\* C15: whatever the remote API answers, a function of the API client
\* returns without raising, and after a failed request (transport failure,
\* timeout, HTTP error status, undecodable body) it returns its failure
\* value: an empty mapping, None, ([], 0), None.
C15_NeverRaises ==
    last.op \in ApiOps =>
        /\ ~last.arg[1].raised
        /\ last.arg[1].outcome \in FailedRequests => last.arg[1].sentinel

\* C16: a grid shown for a page above 1 offers an enabled "Previous" button,
\* so that the user can page back to page 1.  Only grids whose discovery
\* call was answered with a total of at least one page are held to it.
C16_PreviousOffered ==
    (/\ pc = "idle"
     /\ view.kind = "grid"
     /\ page > 1
     /\ view.total_pages # None
     /\ view.total_pages[1] >= 1)
    => (view.pagination /\ view.prev_enabled)

====
